---- MODULE Spec2Model ----
(***************************************************************************)
(* Data generators of pomegranate, as presented in                         *)
(* tutorials/C_Feature_Tutorial_7_Data_Generators.ipynb:                   *)
(*   - BaseGenerator and the out-of-core MemoryMapGenerator built on it,   *)
(*   - the traversals (Python generator objects) that batches() creates,   *)
(*   - the internal fitting loop that consumes one traversal per epoch.    *)
(***************************************************************************)
EXTENDS Integers, Sequences, FiniteSets, TLC

\* ------------------------------------------------------------------ bounds
\* Longest data set (number of examples) that is enumerated.
MaxN == 3
\* Largest explicit batch_size that is enumerated.
MaxB == 3
\* Number of traversals (calls of batches()) that may coexist.
MaxTrav == 2
\* The yield history of a traversal is recorded up to this many batches; a
\* traversal over n <= MaxN examples with batch_size >= 1 yields at most n.
MaxYield == MaxN + 1

\* Feature values of an example (one number stands for a row of X).
Vals == {1, 2}

Min(a, b) == IF a < b THEN a ELSE b
Max(a, b) == IF a > b THEN a ELSE b

\* Python's None and a present argument.
None == << >>
Some(v) == << v >>

\* ------------------------------------------------------------- the inputs
\* numpy.load(filename): the array stored in the file, n rows.
Datasets == UNION { [1..n -> Vals] : n \in 0..MaxN }
\* numpy.load(weights): a stored weight array of m weights; the i-th stored
\* weight is i, so that every weight of a file is recognisable.
WeightFiles == { [i \in 1..m |-> i] : m \in 0..MaxN }
WeightArgs == {None} \cup { Some(w) : w \in WeightFiles }
BatchSizeArgs == {None} \cup { Some(b) : b \in 0..MaxB }

\* ---------------------------------------------------------- numpy helpers
\* numpy.ones(n)
numpy_ones(n) == [i \in 1..n |-> 1]

\* Python's index normalisation of a slice bound against a length n.
SliceBound(i, n) == IF i < 0 THEN Max(i + n, 0) ELSE Min(i, n)

\* s[start:end] of Python and numpy (step 1): bounds are clamped to the
\* array, an empty or inverted window gives the empty array.
Slice(s, start, end) ==
    LET lo == SliceBound(start, Len(s))
        hi == SliceBound(end, Len(s))
    IN  IF lo >= hi THEN << >> ELSE SubSeq(s, lo + 1, hi)

\* The example indices 0..n-1 of a data set, as an array (ghost: it is sliced
\* with the window of each batch to name the examples the batch holds).
Indices(n) == [i \in 1..n |-> i - 1]

\* ------------------------------------------------------------------ state
VARIABLES
    gen,        \* None, or Some(the MemoryMapGenerator object)
    trav,       \* trav[t]: the t-th generator object made by batches()
    call,       \* None, or Some(outcome of the last method invocation)
    \* the fitting loop (from_samples on the data set, then on the generator)
    cfg,        \* None, or Some(the arguments of the two from_samples calls)
    run,        \* the adapter the running fit draws from, or "none"
    pc,         \* where the fitting loop stands
    iteration,  \* the loop's iteration counter
    improvement,            \* the last improvement, [inf |-> TRUE] at first
    log_probability_sum,    \* the aggregate of the last epoch
    last_log_probability_sum,
    params,     \* the model's parameters
    summaries,  \* the model's stored sufficient statistics
    it,         \* the generator object of the current epoch
    tasks,      \* the summarize calls dispatched in the current epoch
    trace,      \* the improvements reported so far by the running fit
    traces      \* traces[a]: None, or Some(the record of the finished fit)

genvars == << gen, trav, call >>
fitvars == << cfg, run, pc, iteration, improvement, log_probability_sum,
              last_log_probability_sum, params, summaries, it, tasks,
              trace, traces >>
vars == << gen, trav, call, cfg, run, pc, iteration, improvement,
           log_probability_sum, last_log_probability_sum, params, summaries,
           it, tasks, trace, traces >>

\* ------------------------------------------------- MemoryMapGenerator
\* MemoryMapGenerator.__init__(self, filename, weights=None, batch_size=None)
MemoryMapGenerator_init(filename, weights, batch_size) ==
    LET X == filename
    IN  [ X          |-> X,
          weights    |-> IF weights = None THEN numpy_ones(Len(X))
                                           ELSE weights[1],
          batch_size |-> IF batch_size = None THEN Len(X)
                                              ELSE batch_size[1] ]

\* MemoryMapGenerator.__len__
MemoryMapGenerator_len(g) == Len(g.X)

\* A generator object just made by batches(): no line of the body has run.
NoTraversal == [ pos |-> "none", start |-> 0, end |-> 0, iteration |-> 0,
                 out |-> << >> ]
batches_new == [ NoTraversal EXCEPT !.pos = "created" ]

\* A mutant of batches_enter: the cursor is carried over from the traversal
\* that stands furthest, instead of starting at 0.
batches_enter_Resume(g) ==
    LET far == CHOOSE s \in { trav[t].start : t \in DOMAIN trav } :
                   \A t \in DOMAIN trav : trav[t].start <= s
    IN  [ start |-> far, end |-> far + g.batch_size, iteration |-> 0 ]

\* "start, end = 0, self.batch_size; iteration = 0"
batches_enter(g) ==
    [ start |-> 0, end |-> g.batch_size, iteration |-> 0 ]

\* iteration += 1.  Python's integer is unbounded and the program never reads
\* iteration: the count is exact up to MaxYield, and beyond MaxYield (which
\* only a traversal that does not end reaches) only its parity is kept.
Increment(i) ==
    IF i < MaxYield THEN i + 1
    ELSE IF i = MaxYield THEN MaxYield + 1 ELSE MaxYield

\* A mutant of batches_advance: end is advanced, start is advanced one short.
batches_advance_Overlap(g, c) ==
    [ start     |-> c.start + g.batch_size - 1,
      end       |-> c.end + g.batch_size,
      iteration |-> Increment(c.iteration) ]

\* "start += self.batch_size; end += self.batch_size; iteration += 1".
batches_advance(g, c) ==
    [ start     |-> c.start + g.batch_size,
      end       |-> c.end + g.batch_size,
      iteration |-> Increment(c.iteration) ]

\* A mutant of batches_cond: the bound is tested inclusively.
batches_cond_Inclusive(g, c) == c.start <= MemoryMapGenerator_len(g)

\* A mutant of batches_cond: a window that passes the end is not yielded.
batches_cond_DropPartial(g, c) == c.end <= MemoryMapGenerator_len(g)

\* "while start < len(self)"
batches_cond(g, c) == c.start < MemoryMapGenerator_len(g)

\* A mutant of batches_yield: the window is taken one row short.
batches_yield_ShortWindow(g, c) ==
    [ X       |-> Slice(g.X, c.start, c.end - 1),
      weights |-> Slice(g.weights, c.start, c.end - 1),
      idx     |-> Slice(Indices(MemoryMapGenerator_len(g)), c.start, c.end - 1) ]

\* "yield self.X[start:end], self.weights[start:end]"; idx is ghost.
batches_yield(g, c) ==
    [ X       |-> Slice(g.X, c.start, c.end),
      weights |-> Slice(g.weights, c.start, c.end),
      idx     |-> Slice(Indices(MemoryMapGenerator_len(g)), c.start, c.end) ]

\* next(it) on a generator object made by batches(): run the body from where
\* it is suspended to the next yield, or to its end.  The batches yielded so
\* far are recorded in out (ghost), up to MaxYield of them.
batches_next(g, c) ==
    LET l == IF c.pos = "created" THEN batches_enter(g)
                                  ELSE batches_advance(g, c)
    IN  IF batches_cond(g, l)
        THEN [ pos |-> "suspended", start |-> l.start, end |-> l.end,
               iteration |-> l.iteration,
               out |-> IF Len(c.out) < MaxYield
                       THEN Append(c.out, batches_yield(g, l))
                       ELSE c.out ]
        ELSE [ pos |-> "finished", start |-> l.start, end |-> l.end,
               iteration |-> l.iteration, out |-> c.out ]

\* ------------------------------------------------------- BaseGenerator
Methods == { "__len__", "shape", "ndim", "batches",
             "unlabeled_batches", "labeled_batches" }
Classes == { "BaseGenerator", "MemoryMapGenerator" }

\* The methods a class body defines itself.
Defines(cls) ==
    IF cls = "MemoryMapGenerator"
    THEN { "__init__", "__len__", "shape", "ndim", "batches" }
    ELSE { "__init__" } \cup Methods

\* Attribute lookup along class MemoryMapGenerator(BaseGenerator).
Resolve(cls, m) == IF m \in Defines(cls) THEN cls ELSE "BaseGenerator"

\* Every method of BaseGenerator is "return NotImplementedError": the call
\* returns the exception class as its value.
BaseGenerator_method(m) ==
    [ kind |-> "returned", what |-> "NotImplementedError" ]

\* The methods MemoryMapGenerator defines return a value of their kind.
MemoryMapGenerator_method(m) ==
    [ kind |-> "returned",
      what |-> CASE m = "__len__" -> "int"
                 [] m = "shape"   -> "tuple"
                 [] m = "ndim"    -> "int"
                 [] OTHER         -> "generator" ]

\* obj.m() for an object of class cls.
Invoke(cls, m) ==
    IF Resolve(cls, m) = "BaseGenerator" THEN BaseGenerator_method(m)
                                         ELSE MemoryMapGenerator_method(m)

\* --------------------------------------------------------------- actions
TravIds == 1..MaxTrav

Adapters == { "DataGenerator", "MemoryMapGenerator" }
Infinity == [ inf |-> TRUE, v |-> 0 ]

Init ==
    /\ gen = None
    /\ trav = [t \in TravIds |-> NoTraversal]
    /\ call = None
    /\ cfg = None
    /\ run = "none"
    /\ pc = "idle"
    /\ iteration = 0
    /\ improvement = Infinity
    /\ log_probability_sum = 0
    /\ last_log_probability_sum = 0
    /\ params = 0
    /\ summaries = 0
    /\ it = NoTraversal
    /\ tasks = << >>
    /\ trace = << >>
    /\ traces = [a \in Adapters |-> None]

\* X_generator = MemoryMapGenerator(filename, weights, batch_size)
Construct ==
    /\ gen = None
    /\ \E filename \in Datasets, weights \in WeightArgs,
          batch_size \in BatchSizeArgs :
          gen' = Some(MemoryMapGenerator_init(filename, weights, batch_size))
    /\ UNCHANGED << trav, call, fitvars >>

\* it = X_generator.batches()
CallBatches(t) ==
    /\ gen # None
    /\ trav[t].pos = "none"
    /\ trav' = [trav EXCEPT ![t] = batches_new]
    /\ UNCHANGED << gen, call, fitvars >>

\* next(it)
NextBatch(t) ==
    /\ gen # None
    /\ trav[t].pos \in { "created", "suspended" }
    /\ trav' = [trav EXCEPT ![t] = batches_next(gen[1], trav[t])]
    /\ UNCHANGED << gen, call, fitvars >>

\* obj.m() on a BaseGenerator() or on the MemoryMapGenerator
CallMethod(cls, m) ==
    /\ cls = "MemoryMapGenerator" => gen # None
    /\ call' = Some([ cls |-> cls, method |-> m, kind |-> Invoke(cls, m).kind,
                      what |-> Invoke(cls, m).what ])
    /\ UNCHANGED << gen, trav, fitvars >>

Next ==
    \/ Construct
    \/ \E t \in TravIds : CallBatches(t)
    \/ \E t \in TravIds : NextBatch(t)

Spec == Init /\ [][Next]_vars

\* A consumer that keeps pulling: every traversal that can be advanced
\* eventually is.
FairSpec == Spec /\ \A t \in TravIds : WF_vars(NextBatch(t))

CallNext ==
    \/ Construct
    \/ \E cls \in Classes, m \in Methods : CallMethod(cls, m)

CallSpec == Init /\ [][CallNext]_vars

\* ======================================================= the fitting loop
\* Largest max_iterations and largest n_jobs that are enumerated.
MaxIter == 2
MaxJobs == 2

\* stop_threshold values that are enumerated.
Thresholds == {0, 1}
\* batch_size arguments of the two fits: the default, or a positive size.
FitBatchSizeArgs == {None} \cup { Some(b) : b \in 1..MaxB }

\* ------------------------------------------- the in-memory DataGenerator
\* DataGenerator(X, batch_size=None): wraps the array, uniform weights.
DataGenerator_init(X, batch_size) ==
    [ X          |-> X,
      weights    |-> numpy_ones(Len(X)),
      batch_size |-> IF batch_size = None THEN Len(X) ELSE batch_size[1] ]

\* The contiguous chunks of (X, weights) of b rows each, in the original
\* order, the last one possibly shorter; first is the index of X[1].
RECURSIVE Chunks(_, _, _, _)
Chunks(X, w, b, first) ==
    IF X = << >> THEN << >>
    ELSE LET k == Min(b, Len(X))
         IN  << [ X       |-> SubSeq(X, 1, k),
                  weights |-> SubSeq(w, 1, k),
                  idx     |-> [i \in 1..k |-> first + i - 1] ] >>
             \o Chunks(SubSeq(X, k + 1, Len(X)), SubSeq(w, k + 1, Len(w)),
                       b, first + k)

DataGenerator_chunks(d) == Chunks(d.X, d.weights, d.batch_size, 0)

\* next(it) on a traversal of DataGenerator.batches(): the next chunk, if any.
DataGenerator_next(d, c) ==
    LET k == IF c.pos = "created" THEN 1 ELSE c.iteration + 2
    IN  IF k <= Len(DataGenerator_chunks(d))
        THEN [ pos |-> "suspended", start |-> (k - 1) * d.batch_size,
               end |-> k * d.batch_size, iteration |-> k - 1,
               out |-> Append(c.out, DataGenerator_chunks(d)[k]) ]
        ELSE [ c EXCEPT !.pos = "finished" ]

\* ------------------------------------------------------------ the model
\* The model being fitted is outside the loop; it stands here as a parameter
\* p in 0..2, with per-example log probability x * p and sufficient statistic
\* x, both weighted.
RECURSIVE WeightedSum(_, _)
WeightedSum(X, w) ==
    IF X = << >> THEN 0 ELSE X[1] * w[1] + WeightedSum(Tail(X), Tail(w))

\* self.summarize(X, weights): the log probability of the batch under the
\* current parameters, and the batch's sufficient statistic.
summarize(batch, p) ==
    [ lp   |-> p * WeightedSum(batch.X, batch.weights),
      stat |-> WeightedSum(batch.X, batch.weights) ]

\* self.from_summaries(...): new parameters from the stored statistics.
from_summaries(p, s) == (p + s) % 3

\* ------------------------------------------------------- the loop's parts
\* The data generator of the running fit and its batches().
data_generator(a) ==
    IF a = "MemoryMapGenerator" THEN gen[1]
    ELSE DataGenerator_init(cfg[1].X, cfg[1].batch_size)

generator_next(a, c) ==
    IF a = "MemoryMapGenerator" THEN batches_next(data_generator(a), c)
    ELSE DataGenerator_next(data_generator(a), c)

\* The batch at which the generator object c is suspended.
generator_batch(a, c) ==
    IF a = "MemoryMapGenerator" THEN batches_yield(data_generator(a), c)
    ELSE DataGenerator_chunks(data_generator(a))[c.iteration + 1]

Exceeds(impr, threshold) == impr.inf \/ impr.v > threshold

\* A mutant of LoopCond: the limit is one iteration too far.
LoopCond_OneMore(impr, iter) ==
    /\ Exceeds(impr, cfg[1].stop_threshold)
    /\ iter < cfg[1].max_iterations + 2

\* "while improvement > stop_threshold and iteration < max_iterations + 1"
LoopCond(impr, iter) ==
    /\ Exceeds(impr, cfg[1].stop_threshold)
    /\ iter < cfg[1].max_iterations + 1

Running(ts) == { i \in DOMAIN ts : ts[i].st = "running" }
Outstanding(ts) == { i \in DOMAIN ts : ts[i].st # "done" }

\* A mutant of EpochComplete: the results are summed as soon as the generator
\* is exhausted, without waiting for the summaries still under way.
EpochComplete_NoBarrier(c, ts) == c.pos = "finished"

\* A mutant of EpochComplete: the wait ends when the queue is empty, though
\* workers may still be summarizing the calls they took.
EpochComplete_QueueEmpty(c, ts) ==
    c.pos = "finished" /\ \A i \in DOMAIN ts : ts[i].st # "pending"

\* sum(parallel(...)) returns once the generator is exhausted and every
\* dispatched call has returned.
EpochComplete(c, ts) == c.pos = "finished" /\ Outstanding(ts) = {}

\* sum(...) over the results in the order of the list parallel() returns,
\* which is the order of dispatch; a call that has not returned adds nothing.
RECURSIVE SumResults(_, _)
SumResults(ts, field) ==
    IF ts = << >> THEN 0
    ELSE (IF ts[1].st = "done" THEN ts[1].res[field] ELSE 0)
         + SumResults(Tail(ts), field)

\* --------------------------------------------------------------- actions
\* X = ...; numpy.save("X_test.npy", X);
\* X_generator = MemoryMapGenerator("X_test.npy", batch_size=...), and the
\* arguments the two from_samples calls share.
FitConstruct ==
    /\ cfg = None
    /\ \E X \in Datasets, batch_size \in FitBatchSizeArgs,
          n_jobs \in 1..MaxJobs, max_iterations \in 0..MaxIter,
          stop_threshold \in Thresholds :
          /\ gen' = Some(MemoryMapGenerator_init(X, None, batch_size))
          /\ cfg' = Some([ X |-> X, batch_size |-> batch_size,
                           n_jobs |-> n_jobs,
                           max_iterations |-> max_iterations,
                           stop_threshold |-> stop_threshold ])
    /\ UNCHANGED << trav, call, run, pc, iteration, improvement,
                    log_probability_sum, last_log_probability_sum, params,
                    summaries, it, tasks, trace, traces >>

\* model = GeneralMixtureModel.from_samples(d, 2, X or X_generator, ...):
\* the model in its initial state, the loop about to test its condition.
\* The fit on the array (wrapped in a DataGenerator) comes first.
FromSamples(a) ==
    /\ cfg # None
    /\ pc = "idle"
    /\ traces[a] = None
    /\ a = "MemoryMapGenerator" => traces["DataGenerator"] # None
    /\ run' = a
    /\ pc' = "test"
    /\ iteration' = 0
    /\ improvement' = Infinity
    /\ log_probability_sum' = 0
    /\ last_log_probability_sum' = 0
    /\ params' = 0
    /\ summaries' = 0
    /\ it' = NoTraversal
    /\ tasks' = << >>
    /\ trace' = << >>
    /\ UNCHANGED << gen, trav, call, cfg, traces >>

\* The test of the while loop; when it fails the fit returns its record.
LoopTest ==
    /\ pc = "test"
    /\ IF LoopCond(improvement, iteration)
       THEN /\ pc' = "update"
            /\ UNCHANGED << run, traces >>
       ELSE /\ pc' = "idle"
            /\ run' = "none"
            /\ traces' = [traces EXCEPT ![run] =
                   Some([ trace      |-> trace,
                          iterations |-> iteration,
                          converged  |-> ~Exceeds(improvement,
                                                  cfg[1].stop_threshold) ])]
    /\ UNCHANGED << gen, trav, call, cfg, iteration, improvement,
                    log_probability_sum, last_log_probability_sum, params,
                    summaries, it, tasks, trace >>

\* "self.from_summaries(step_size, pseudocount)"
FromSummaries ==
    /\ pc = "update"
    /\ params' = from_summaries(params, summaries)
    /\ summaries' = 0
    /\ pc' = "call"
    /\ UNCHANGED << gen, trav, call, cfg, run, iteration, improvement,
                    log_probability_sum, last_log_probability_sum, it, tasks,
                    trace, traces >>

\* "data_generator.batches()"
RequestBatches ==
    /\ pc = "call"
    /\ it' = batches_new
    /\ tasks' = << >>
    /\ pc' = "epoch"
    /\ UNCHANGED << gen, trav, call, cfg, run, iteration, improvement,
                    log_probability_sum, last_log_probability_sum, params,
                    summaries, trace, traces >>

\* parallel(...) pulls the next batch from the generator and queues
\* f(*batch); with n_jobs = 1 it pulls a batch only when the one before has
\* been summarized.
Dispatch ==
    /\ pc = "epoch"
    /\ it.pos \in { "created", "suspended" }
    /\ cfg[1].n_jobs = 1 => Outstanding(tasks) = {}
    /\ LET c == generator_next(run, it)
       IN  /\ it' = c
           /\ tasks' = IF c.pos = "suspended"
                       THEN Append(tasks, [ batch |-> generator_batch(run, c),
                                            st    |-> "pending",
                                            ord   |-> 0,
                                            res   |-> [lp |-> 0, stat |-> 0] ])
                       ELSE tasks
    /\ UNCHANGED << gen, trav, call, cfg, run, pc, iteration, improvement,
                    log_probability_sum, last_log_probability_sum, params,
                    summaries, trace, traces >>

\* A free worker thread takes a queued call.
StartTask(i) ==
    /\ pc = "epoch"
    /\ i \in DOMAIN tasks
    /\ tasks[i].st = "pending"
    /\ Cardinality(Running(tasks)) < cfg[1].n_jobs
    /\ tasks' = [tasks EXCEPT ![i].st = "running"]
    /\ UNCHANGED << gen, trav, call, cfg, run, pc, iteration, improvement,
                    log_probability_sum, last_log_probability_sum, params,
                    summaries, it, trace, traces >>

\* The call self.summarize(*batch) returns its result; ord (ghost) is its
\* rank among the calls of the epoch in order of completion.
FinishTask(i) ==
    /\ pc = "epoch"
    /\ i \in DOMAIN tasks
    /\ tasks[i].st = "running"
    /\ tasks' = [tasks EXCEPT ![i].st = "done",
                              ![i].ord = Len(tasks) - Cardinality(Outstanding(tasks)) + 1,
                              ![i].res = summarize(tasks[i].batch, params)]
    /\ UNCHANGED << gen, trav, call, cfg, run, pc, iteration, improvement,
                    log_probability_sum, last_log_probability_sum, params,
                    summaries, it, trace, traces >>

\* The improvement after an epoch whose aggregate is lps: the aggregate minus
\* the aggregate of the epoch before; pass 0 has no epoch before it and
\* leaves the improvement as it is.
improvement_after(iter, impr, lps, last) ==
    IF iter = 0 THEN impr ELSE [ inf |-> FALSE, v |-> lps - last ]

\* The improvements reported so far, after that epoch.
trace_after(iter, tr, lps, last) ==
    IF iter = 0 THEN tr ELSE Append(tr, lps - last)

\* "log_probability_sum = sum(parallel(...))" and the rest of the loop body:
\* the statistics of the epoch are stored, the improvement is computed and
\* reported, and the iteration counter advances.
Reduce ==
    /\ pc = "epoch"
    /\ EpochComplete(it, tasks)
    /\ LET lps == SumResults(tasks, "lp")
       IN  /\ log_probability_sum' = lps
           /\ summaries' = SumResults(tasks, "stat")
           /\ improvement' = improvement_after(iteration, improvement, lps,
                                               last_log_probability_sum)
           /\ trace' = trace_after(iteration, trace, lps,
                                   last_log_probability_sum)
           /\ last_log_probability_sum' = lps
    /\ iteration' = iteration + 1
    /\ pc' = "test"
    /\ UNCHANGED << gen, trav, call, cfg, run, params, it, tasks, traces >>

FitNext ==
    \/ FitConstruct
    \/ \E a \in Adapters : FromSamples(a)
    \/ LoopTest
    \/ FromSummaries
    \/ RequestBatches
    \/ Dispatch
    \/ \E i \in 1..MaxN : StartTask(i)
    \/ \E i \in 1..MaxN : FinishTask(i)
    \/ Reduce

FitSpec == Init /\ [][FitNext]_vars

\* ----------------------------------------------------- claims: traversals
Range(s) == { s[i] : i \in DOMAIN s }
Prefix(a, b) == Len(a) <= Len(b) /\ SubSeq(b, 1, Len(a)) = a
Ceil(n, b) == (n + b - 1) \div b

RECURSIVE FeatureConcat(_)
FeatureConcat(out) ==
    IF out = << >> THEN << >> ELSE out[1].X \o FeatureConcat(Tail(out))

RECURSIVE FeatureCount(_)
FeatureCount(out) ==
    IF out = << >> THEN 0 ELSE Len(out[1].X) + FeatureCount(Tail(out))

\* C1: with batch_size >= 1, the batches of a traversal never share an example
\* index and never repeat one, and once the traversal has ended every index
\* 0..n-1 lies in exactly one batch and the feature slices' lengths sum to
\* len(generator).
C1_EpochCoversDataset ==
    (gen # None /\ gen[1].batch_size >= 1) =>
        \A t \in TravIds :
            LET o == trav[t].out
                n == MemoryMapGenerator_len(gen[1])
            IN  /\ \A k \in DOMAIN o :
                       /\ Len(o[k].idx) = Len(o[k].X)
                       /\ Cardinality(Range(o[k].idx)) = Len(o[k].idx)
                /\ \A j, k \in DOMAIN o :
                       j # k => Range(o[j].idx) \cap Range(o[k].idx) = {}
                /\ trav[t].pos = "finished" =>
                       /\ \A i \in 0..(n - 1) :
                              Cardinality({ k \in DOMAIN o :
                                              i \in Range(o[k].idx) }) = 1
                       /\ FeatureCount(o) = n

C1_Witness ==
    /\ gen # None
    /\ gen[1].batch_size >= 1
    /\ \E t \in TravIds :
           /\ trav[t].pos = "finished"
           /\ Len(trav[t].out) >= 2
           /\ Len(trav[t].out[Len(trav[t].out)].X) < gen[1].batch_size

\* C2: with batch_size b >= 1 a finished traversal has yielded ceil(n / b)
\* batches, each but the last of exactly b examples, the last one non-empty,
\* ending at the end of the data set, and the feature slices concatenated in
\* yield order are the data set.
C2_ChunksRoundTrip ==
    (gen # None /\ gen[1].batch_size >= 1) =>
        \A t \in TravIds :
            LET o == trav[t].out
                n == MemoryMapGenerator_len(gen[1])
                b == gen[1].batch_size
            IN  /\ \A k \in DOMAIN o :
                       /\ Len(o[k].X) >= 1
                       /\ k < Len(o) => Len(o[k].X) = b
                /\ trav[t].pos = "finished" =>
                       /\ Len(o) = Ceil(n, b)
                       /\ FeatureConcat(o) = gen[1].X
                       /\ Len(o) > 0 =>
                              /\ Len(o[Len(o)].X) = n - b * (Len(o) - 1)
                              /\ Len(o[Len(o)].X) <= b
                              /\ o[Len(o)].idx[Len(o[Len(o)].idx)] = n - 1

C2_Witness ==
    /\ gen # None
    /\ gen[1].batch_size = 2
    /\ MemoryMapGenerator_len(gen[1]) = 3
    /\ gen[1].X[1] # gen[1].X[2]
    /\ \E t \in TravIds :
           /\ trav[t].pos = "finished"
           /\ Len(trav[t].out) = 2

\* C3: every traversal starts at index 0 and its position is a function of
\* its own progress alone (start = batch_size * iteration), whatever the other
\* traversals have done; the batches two traversals have yielded so far agree
\* (one history is a prefix of the other), and no traversal has yielded
\* anything that a finished traversal did not yield at the same place.
C3_TraversalsIndependent ==
    gen # None =>
        /\ \A t \in TravIds :
               /\ trav[t].pos = "suspended" =>
                      /\ trav[t].start = gen[1].batch_size * trav[t].iteration
                      /\ trav[t].end = trav[t].start + gen[1].batch_size
                      /\ Len(trav[t].out) = Min(trav[t].iteration + 1, MaxYield)
               /\ (trav[t].out # << >> /\ trav[t].out[1].idx # << >>) =>
                      trav[t].out[1].idx[1] = 0
        /\ \A t1, t2 \in TravIds :
               /\ Prefix(trav[t1].out, trav[t2].out)
                      \/ Prefix(trav[t2].out, trav[t1].out)
               /\ trav[t1].pos = "finished" =>
                      Prefix(trav[t2].out, trav[t1].out)

C3_Witness ==
    /\ gen # None
    /\ \E t1, t2 \in TravIds :
           /\ trav[t1].pos = "finished"
           /\ Len(trav[t1].out) >= 2
           /\ trav[t2].pos = "suspended"
           /\ Len(trav[t2].out) = 1

\* C4: under a consumer that keeps pulling, every traversal of every
\* generator the constructor accepts comes to its end.
C4_TraversalIsFinite ==
    \A t \in TravIds :
        (trav[t].pos = "created") ~> (trav[t].pos = "finished")

\* C5: no generator object exists whose weight array and data set differ in
\* length, and no batch pairs a feature slice with a weight slice of another
\* length.
C5_MismatchedWeightsRejected ==
    gen # None =>
        /\ Len(gen[1].weights) = Len(gen[1].X)
        /\ \A t \in TravIds : \A k \in DOMAIN trav[t].out :
               Len(trav[t].out[k].weights) = Len(trav[t].out[k].X)

\* C7: a call of a method that the object's class leaves to BaseGenerator
\* does not return: it ends by raising NotImplementedError.
C7_UnimplementedRaises ==
    (call # None /\ Resolve(call[1].cls, call[1].method) = "BaseGenerator") =>
        /\ call[1].kind = "raised"
        /\ call[1].what = "NotImplementedError"

\* -------------------------------------------------- claims: fitting loop
MMG == "MemoryMapGenerator"
DG == "DataGenerator"
InPass == pc \in { "update", "call", "epoch" }

\* One epoch under sequential in-order execution by one worker: the batches
\* of a fresh traversal, summarized one after the other and added up.
RECURSIVE SequentialEpoch(_, _, _)
SequentialEpoch(a, c, p) ==
    LET c2 == generator_next(a, c)
    IN  IF c2.pos # "suspended" THEN [ lp |-> 0, stat |-> 0 ]
        ELSE LET r    == summarize(generator_batch(a, c2), p)
                 rest == SequentialEpoch(a, c2, p)
             IN  [ lp |-> r.lp + rest.lp, stat |-> r.stat + rest.stat ]

C8_BeginsBelowMaxIterations ==
    cfg # None =>
        /\ InPass => /\ Exceeds(improvement, cfg[1].stop_threshold)
                     /\ iteration < cfg[1].max_iterations
        /\ \A a \in Adapters : traces[a] # None =>
               traces[a][1].iterations <= cfg[1].max_iterations

\* C8 amended: a pass of the loop is under way only while the improvement
\* exceeds stop_threshold and the iteration counter is below
\* max_iterations + 1; the body is entered at most max_iterations + 1 times
\* (pass 0 and at most max_iterations passes that report an improvement),
\* and a fit that ends without having converged ends in the same way as one
\* that has, after exactly max_iterations + 1 passes.
C8_BeginsBelowMaxIterationsPlusOne ==
    cfg # None =>
        /\ InPass => /\ Exceeds(improvement, cfg[1].stop_threshold)
                     /\ iteration < cfg[1].max_iterations + 1
        /\ iteration <= cfg[1].max_iterations + 1
        /\ Len(trace) <= cfg[1].max_iterations
        /\ \A a \in Adapters : traces[a] # None =>
               /\ traces[a][1].iterations <= cfg[1].max_iterations + 1
               /\ Len(traces[a][1].trace) <= cfg[1].max_iterations
               /\ ~traces[a][1].converged =>
                      traces[a][1].iterations = cfg[1].max_iterations + 1

C8_Witness ==
    /\ cfg # None
    /\ cfg[1].max_iterations >= 1
    /\ \E a \in Adapters :
           /\ traces[a] # None
           /\ ~traces[a][1].converged
           /\ traces[a][1].iterations = cfg[1].max_iterations + 1
           /\ Len(traces[a][1].trace) = cfg[1].max_iterations

\* C9: whatever the order in which the workers took and completed the
\* summaries of an epoch, the aggregate the loop holds after the epoch (the
\* log probability sum and the summed statistics) is the aggregate of
\* sequential in-order execution with one worker.
C9_AggregateOrderInvariant ==
    (pc = "test" /\ iteration >= 1) =>
        /\ log_probability_sum = SequentialEpoch(run, batches_new, params).lp
        /\ summaries = SequentialEpoch(run, batches_new, params).stat

C9_Witness ==
    /\ pc = "test"
    /\ iteration >= 2
    /\ log_probability_sum # 0
    /\ \E i, j \in DOMAIN tasks :
           /\ i < j
           /\ tasks[j].ord < tasks[i].ord
           /\ tasks[i].res.lp # tasks[j].res.lp

\* C10: for the same data set, batch size and initial model, the fit drawn
\* from the MemoryMapGenerator ends with the same record as the fit drawn
\* from the in-memory DataGenerator: the same number of iterations, the same
\* improvement at each of them (hence the same total), the same outcome.
C10_SameImprovementTrace ==
    (traces[DG] # None /\ traces[MMG] # None) => traces[MMG] = traces[DG]

C10_Witness ==
    /\ traces[DG] # None
    /\ traces[MMG] # None
    /\ Len(cfg[1].X) = 3
    /\ cfg[1].batch_size = Some(2)
    /\ Len(traces[MMG][1].trace) >= 2
    /\ traces[MMG][1].trace[1] # traces[MMG][1].trace[2]

\* ------------------------------------------------ claims: order of a pass
\* What holds of every state: outside the epoch no summarize call is queued
\* or running, and the statistics an update is about to use are those the
\* pass before it accumulated.
C11_State ==
    /\ pc # "epoch" => Outstanding(tasks) = {}
    /\ (pc = "update" /\ iteration >= 1) =>
           summaries = SumResults(tasks, "stat")

\* What holds of every step: the update is taken from the loop head and uses
\* the stored statistics; batches() is called once, after the update, and the
\* epoch starts from that fresh traversal with nothing dispatched; calls are
\* dispatched, taken and completed inside the epoch only; the epoch is left
\* only by the reduction, with the traversal exhausted and every batch it
\* yielded summarized.
C11_Step ==
    /\ (pc' = "call" /\ pc # "call") =>
           /\ pc = "update"
           /\ params' = from_summaries(params, summaries)
           /\ Outstanding(tasks) = {}
    /\ (it' # it /\ it'.pos = "created") =>
           /\ pc = "call" /\ pc' = "epoch"
           /\ it' = batches_new
           /\ tasks' = << >>
    /\ (pc' = "epoch" /\ pc # "epoch") =>
           /\ pc = "call"
           /\ it' = batches_new
    /\ (tasks' # tasks /\ tasks' # << >>) => (pc = "epoch" /\ pc' = "epoch")
    /\ params' # params => pc \in { "update", "idle" }
    /\ (pc = "epoch" /\ pc' # "epoch") =>
           /\ pc' = "test"
           /\ it.pos = "finished"
           /\ Len(tasks) = Len(it.out)
           /\ \A k \in DOMAIN tasks :
                  /\ tasks[k].st = "done"
                  /\ tasks[k].batch = it.out[k]
           /\ log_probability_sum' = SumResults(tasks, "lp")

\* C11: in every pass of the fitting loop the parameter update from the
\* statistics of the pass before comes first, then one fresh call of
\* batches(), then the summarization of every batch of that traversal, then
\* the reduction; the reduction and the next update never start while a
\* summarization of the epoch is queued or running, for every n_jobs.
C11_PassOrderAndBarrier == [](C11_State) /\ [][C11_Step]_vars

C11_Witness ==
    /\ pc = "update"
    /\ iteration >= 2
    /\ run = MMG
    /\ cfg[1].n_jobs >= 2
    /\ Len(tasks) >= 2
    /\ \E i, j \in DOMAIN tasks : i < j /\ tasks[j].ord < tasks[i].ord

\* ---------------------------------------------- claims: the yielded pairs
\* C12: every batch a traversal yields pairs a feature slice and a weight
\* slice of the same length, the i-th weight and the i-th feature row being
\* those of the same example of the data set; and when the weights are the
\* default ones, every weight of every batch is 1.
C12_BatchPairsAligned ==
    gen # None =>
        \A t \in TravIds : \A k \in DOMAIN trav[t].out :
            LET bt == trav[t].out[k]
            IN  /\ Len(bt.weights) = Len(bt.X)
                /\ Len(bt.idx) = Len(bt.X)
                /\ \A i \in DOMAIN bt.X :
                       /\ bt.X[i] = gen[1].X[bt.idx[i] + 1]
                       /\ bt.weights[i] = gen[1].weights[bt.idx[i] + 1]
                /\ gen[1].weights = numpy_ones(Len(gen[1].X)) =>
                       \A i \in DOMAIN bt.weights : bt.weights[i] = 1

====
